---- MODULE Spec2Model ----
(***************************************************************************)
(* Model of the patient-intake workflow of AI-Healthcare-Assistant:        *)
(*   src/agents.py    route, the three stage processors, the transition    *)
(*                    table (conditions), evaluate_condition, transition   *)
(*   src/groq_llm.py  GroqLLM.generate_response and _clean_response        *)
(*   src/main.py      the Streamlit pages that drive the workflow           *)
(*   src/hospital_finder.py  the Back and Home buttons of the finder page   *)
(*                                                                         *)
(* Text is modelled as a sequence of tokens.  A token stands for a piece   *)
(* of text that the code's substring tests either match as a whole or not  *)
(* at all ("<think>", "</think>", a line break, a keyword, a plain word).  *)
(***************************************************************************)
EXTENDS Integers, Sequences, FiniteSets, TLC

VARIABLES
    state,   \* the workflow state dict {patient_data, stage} the caller holds
    last,    \* the last call made on it: operation, stage on entry, generation
             \* calls it made, processors it invoked, value returned by route,
             \* error raised
    failed,  \* stages whose latest generation call on this record failed
    sessions, \* per UI session: its workflow state dict, whether a transition
             \* call is in progress, and the state dict that call was given
    llm,     \* the module-level generation client of agents.py
    run,     \* a caller looping transition on the state it returns: the
             \* number of calls made and of generation calls they issued
    ui       \* one Streamlit session: st.session_state, whether a rerun is
             \* pending, the last button pressed, the last transition the
             \* UI ran

vars == <<state, last, failed, sessions, llm, run, ui>>

----------------------------------------------------------------------------
(* Bounds *)

\* longest model reply, in tokens, of the specification SpecText
MaxTextLen == 4

\* number of distinct patient names a caller can put in a fresh record
MaxNames == 1

----------------------------------------------------------------------------
(* Text *)

Whitespace == {"\n", " "}

\* tokens at which a line of trailing JSON metadata starts (groq_llm.py:72)
JsonOpen == {"{\"", "\"model\"", "\"elapsed_time\""}

\* a line that closes the metadata block (groq_llm.py:75)
JsonClose == {"}", "},"}

\* str.lower() on a token
lower(tok) ==
    CASE tok \in {"Emergency", "EMERGENCY", "emergency"} -> "emergency"
      [] tok \in {"Urgent", "URGENT", "urgent"} -> "urgent"
      [] OTHER -> tok

\* `word in content.lower()`
InLower(word, content) == \E i \in 1..Len(content) : lower(content[i]) = word

\* `tok in content`
In(tok, content) == \E i \in 1..Len(content) : content[i] = tok

\* content.find(tok), 1-based; only used when tok occurs
find(content, tok) ==
    CHOOSE i \in 1..Len(content) :
        /\ content[i] = tok
        /\ \A j \in 1..(i-1) : content[j] # tok

\* Python slice content[a:b] with 0-based a, b already clipped to 0..Len
Slice(content, a, b) == IF a >= b THEN <<>> ELSE SubSeq(content, a + 1, b)

RECURSIVE lstrip(_)
lstrip(s) == IF s # <<>> /\ Head(s) \in Whitespace THEN lstrip(Tail(s)) ELSE s

RECURSIVE rstrip(_)
rstrip(s) ==
    IF s # <<>> /\ s[Len(s)] \in Whitespace
    THEN rstrip(SubSeq(s, 1, Len(s) - 1))
    ELSE s

strip(s) == rstrip(lstrip(s))

\* content.split('\n'): a sequence of lines, always at least one
RECURSIVE split(_)
split(content) ==
    IF ~In("\n", content)
    THEN <<content>>
    ELSE LET i == find(content, "\n")
         IN  <<SubSeq(content, 1, i - 1)>> \o split(SubSeq(content, i + 1, Len(content)))

\* '\n'.join(lines)
RECURSIVE join(_)
join(lines) ==
    IF lines = <<>> THEN <<>>
    ELSE IF Len(lines) = 1 THEN lines[1]
    ELSE lines[1] \o <<"\n">> \o join(Tail(lines))

\* the loop of groq_llm.py:71-79 over the remaining lines
RECURSIVE FilterLines(_, _)
FilterLines(lines, json_started) ==
    IF lines = <<>> THEN <<>>
    ELSE LET line == strip(Head(lines))
         IN  IF line # <<>> /\ line[1] \in JsonOpen
             THEN FilterLines(Tail(lines), TRUE)
             ELSE IF json_started /\ Len(line) = 1 /\ line[1] \in JsonClose
             THEN FilterLines(Tail(lines), FALSE)
             ELSE IF ~json_started
             THEN <<Head(lines)>> \o FilterLines(Tail(lines), json_started)
             ELSE FilterLines(Tail(lines), json_started)

\* the first think block is cut out when both tags occur (groq_llm.py:61-64)
RemoveThink(content) ==
    IF In("<think>", content) /\ In("</think>", content)
    THEN LET start_idx == find(content, "<think>") - 1
             end_idx == find(content, "</think>")
         IN  Slice(content, 0, start_idx) \o Slice(content, end_idx, Len(content))
    ELSE content

_clean_response(content) == strip(join(FilterLines(split(RemoveThink(content)), FALSE)))

----------------------------------------------------------------------------
(* Text-generation client (src/groq_llm.py) *)

\* What the remote completion call does for one request: it answers with a
\* message content, answers with a null content, or raises with message msg.
RawReplies ==
    { <<>>,
      <<"x">>,
      <<"<think>", "x", "</think>">>,
      <<"<think>", "x", "</think>", "\n", "Emergency">>,
      <<"x", "Urgent", "\n", "{\"", "\n", "}">> }

Outcomes ==
    [kind : {"text"}, content : RawReplies]
        \cup [kind : {"null"}, content : {<<>>}]
        \cup [kind : {"raise"}, content : {<<"x">>}]

\* GroqLLM._async_generate_response: the cleaned content, or the text
\* "Error: <message>" when the call raised or when cleaning a null content
\* raised TypeError (its message is plain words, the token "x")
_async_generate_response(o) ==
    CASE o.kind = "text" -> _clean_response(o.content)
      [] o.kind = "null" -> <<"Error:", " ", "x">>
      [] o.kind = "raise" -> <<"Error:", " ">> \o o.content

generate_response(o) == _async_generate_response(o)

----------------------------------------------------------------------------
(* Patient record and workflow state (src/agents.py) *)

Stages == {"intake", "assessment", "care_planning"}

\* mutant: the record is replaced by the new entries instead of updated
Update_replace(patient_data, entries) == entries

\* dict.update
Update(patient_data, entries) == entries @@ patient_data

\* truthiness of patient_data.get(key)
Flag(patient_data, key) == key \in DOMAIN patient_data /\ patient_data[key] = TRUE

\* A call in progress: the state dict being mutated, the outcomes the
\* generation client will produce for the next requests, the log of the
\* generation calls made so far (raw reply, returned text, outcome kind, and
\* the stage whose processor made the call), and the stages whose processor
\* was invoked so far, in order.
Ctx(st, outs) == [state |-> st, outs |-> outs, log |-> <<>>, inv |-> <<>>]

\* llm.generate_response(prompt, system_prompt) inside a processor
Generate(c, by) ==
    LET o == Head(c.outs)
    IN  [raw |-> o.content, text |-> generate_response(o), kind |-> o.kind, by |-> by]

\* mutant: the completion flag is not consulted
intake_coordinator_unguarded(c) ==
    LET patient_data == c.state.patient_data
        response == Generate(c, "intake")
        updated == Update(patient_data,
                          [risk_assessment |-> response.text,
                           intake_complete |-> TRUE])
    IN  [state |-> [patient_data |-> updated, stage |-> "intake"],
         outs |-> Tail(c.outs),
         log |-> Append(c.log, response),
         inv |-> Append(c.inv, "intake")]

\* mutant: the record is rebuilt from the identity fields and the new result
intake_coordinator_rebuild(c) ==
    LET patient_data == c.state.patient_data
    IN  IF ~Flag(patient_data, "intake_complete")
        THEN LET response == Generate(c, "intake")
                 updated == Update([k \in {"name"} \cap DOMAIN patient_data |-> patient_data[k]],
                                   [risk_assessment |-> response.text,
                                    intake_complete |-> TRUE])
             IN  [state |-> [patient_data |-> updated, stage |-> "intake"],
                  outs |-> Tail(c.outs),
                  log |-> Append(c.log, response),
                  inv |-> Append(c.inv, "intake")]
        ELSE [c EXCEPT !.state.stage = "intake", !.inv = Append(@, "intake")]

\* mutant: a failed generation call leaves the record as it was
intake_coordinator_propagate(c) ==
    LET patient_data == c.state.patient_data
    IN  IF ~Flag(patient_data, "intake_complete")
        THEN LET response == Generate(c, "intake")
                 updated == IF response.kind = "text"
                            THEN Update(patient_data,
                                        [risk_assessment |-> response.text,
                                         intake_complete |-> TRUE])
                            ELSE patient_data
             IN  [state |-> [patient_data |-> updated, stage |-> "intake"],
                  outs |-> Tail(c.outs),
                  log |-> Append(c.log, response),
                  inv |-> Append(c.inv, "intake")]
        ELSE [c EXCEPT !.state.stage = "intake", !.inv = Append(@, "intake")]

intake_coordinator(c) ==
    LET patient_data == c.state.patient_data
    IN  IF ~Flag(patient_data, "intake_complete")
        THEN LET response == Generate(c, "intake")
                 updated == Update(patient_data,
                                   [risk_assessment |-> response.text,
                                    intake_complete |-> TRUE])
             IN  [state |-> [patient_data |-> updated, stage |-> "intake"],
                  outs |-> Tail(c.outs),
                  log |-> Append(c.log, response),
                  inv |-> Append(c.inv, "intake")]
        ELSE [c EXCEPT !.state.stage = "intake", !.inv = Append(@, "intake")]

\* mutant: the processor names the successor stage
clinical_assessment_advances(c) ==
    LET patient_data == c.state.patient_data
    IN  IF ~Flag(patient_data, "assessment_complete")
        THEN LET response == Generate(c, "assessment")
                 updated == Update(patient_data,
                                   [clinical_assessment |-> response.text,
                                    assessment_complete |-> TRUE])
             IN  [state |-> [patient_data |-> updated, stage |-> "care_planning"],
                  outs |-> Tail(c.outs),
                  log |-> Append(c.log, response),
                  inv |-> Append(c.inv, "assessment")]
        ELSE [c EXCEPT !.state.stage = "care_planning", !.inv = Append(@, "assessment")]

\* mutant: an empty response is not stored, the flag still is
clinical_assessment_flag_only(c) ==
    LET patient_data == c.state.patient_data
    IN  IF ~Flag(patient_data, "assessment_complete")
        THEN LET response == Generate(c, "assessment")
                 updated == IF response.text # <<>>
                            THEN Update(patient_data,
                                        [clinical_assessment |-> response.text,
                                         assessment_complete |-> TRUE])
                            ELSE Update(patient_data, [assessment_complete |-> TRUE])
             IN  [state |-> [patient_data |-> updated, stage |-> "assessment"],
                  outs |-> Tail(c.outs),
                  log |-> Append(c.log, response),
                  inv |-> Append(c.inv, "assessment")]
        ELSE [c EXCEPT !.state.stage = "assessment", !.inv = Append(@, "assessment")]

\* mutant: an error text is stored without marking the stage complete
clinical_assessment_unmarked(c) ==
    LET patient_data == c.state.patient_data
    IN  IF ~Flag(patient_data, "assessment_complete")
        THEN LET response == Generate(c, "assessment")
                 updated == IF response.kind = "text"
                            THEN Update(patient_data,
                                        [clinical_assessment |-> response.text,
                                         assessment_complete |-> TRUE])
                            ELSE Update(patient_data,
                                        [clinical_assessment |-> response.text,
                                         assessment_complete |-> FALSE])
             IN  [state |-> [patient_data |-> updated, stage |-> "assessment"],
                  outs |-> Tail(c.outs),
                  log |-> Append(c.log, response),
                  inv |-> Append(c.inv, "assessment")]
        ELSE [c EXCEPT !.state.stage = "assessment", !.inv = Append(@, "assessment")]

\* mutant: the processor sets the completion flag of the care planner
clinical_assessment_wrong_flag(c) ==
    LET patient_data == c.state.patient_data
    IN  IF ~Flag(patient_data, "assessment_complete")
        THEN LET response == Generate(c, "assessment")
                 updated == Update(patient_data,
                                   [clinical_assessment |-> response.text,
                                    care_plan_complete |-> TRUE])
             IN  [state |-> [patient_data |-> updated, stage |-> "assessment"],
                  outs |-> Tail(c.outs),
                  log |-> Append(c.log, response),
                  inv |-> Append(c.inv, "assessment")]
        ELSE [c EXCEPT !.state.stage = "assessment", !.inv = Append(@, "assessment")]

clinical_assessment(c) ==
    LET patient_data == c.state.patient_data
    IN  IF ~Flag(patient_data, "assessment_complete")
        THEN LET response == Generate(c, "assessment")
                 updated == Update(patient_data,
                                   [clinical_assessment |-> response.text,
                                    assessment_complete |-> TRUE])
             IN  [state |-> [patient_data |-> updated, stage |-> "assessment"],
                  outs |-> Tail(c.outs),
                  log |-> Append(c.log, response),
                  inv |-> Append(c.inv, "assessment")]
        ELSE [c EXCEPT !.state.stage = "assessment", !.inv = Append(@, "assessment")]

\* mutant: the two keywords are looked for in the other order
CareLevel_urgent_first(content) ==
    IF InLower("urgent", content) THEN "Urgent"
    ELSE IF InLower("emergency", content) THEN "Emergency"
    ELSE "Routine"

\* the keyword scan of agents.py:229-240
CareLevel(content) ==
    IF InLower("emergency", content) THEN "Emergency"
    ELSE IF InLower("urgent", content) THEN "Urgent"
    ELSE "Routine"

\* mutant: the care planner also marks the assessment complete
care_planner_overreach(c) ==
    LET patient_data == c.state.patient_data
    IN  IF ~Flag(patient_data, "care_plan_complete")
        THEN LET response == Generate(c, "care_planning")
                 content == response.text
                 updated == Update(patient_data,
                                   [treatment_recommendations |-> content,
                                    care_level |-> CareLevel(content),
                                    assessment_complete |-> TRUE,
                                    care_plan_complete |-> TRUE])
             IN  [state |-> [patient_data |-> updated, stage |-> "care_planning"],
                  outs |-> Tail(c.outs),
                  log |-> Append(c.log, response),
                  inv |-> Append(c.inv, "care_planning")]
        ELSE [c EXCEPT !.state.stage = "care_planning", !.inv = Append(@, "care_planning")]

\* mutant: the care level is only written when a keyword was found
care_planner_no_default(c) ==
    LET patient_data == c.state.patient_data
    IN  IF ~Flag(patient_data, "care_plan_complete")
        THEN LET response == Generate(c, "care_planning")
                 content == response.text
                 updated == IF CareLevel(content) # "Routine"
                            THEN Update(patient_data,
                                        [treatment_recommendations |-> content,
                                         care_level |-> CareLevel(content),
                                         care_plan_complete |-> TRUE])
                            ELSE Update(patient_data,
                                        [treatment_recommendations |-> content,
                                         care_plan_complete |-> TRUE])
             IN  [state |-> [patient_data |-> updated, stage |-> "care_planning"],
                  outs |-> Tail(c.outs),
                  log |-> Append(c.log, response),
                  inv |-> Append(c.inv, "care_planning")]
        ELSE [c EXCEPT !.state.stage = "care_planning", !.inv = Append(@, "care_planning")]

\* mutant: a stored error text does not count as a completed care plan
care_planner_retry(c) ==
    LET patient_data == c.state.patient_data
        stored_error == /\ "treatment_recommendations" \in DOMAIN patient_data
                        /\ patient_data["treatment_recommendations"] # <<>>
                        /\ patient_data["treatment_recommendations"][1] = "Error:"
    IN  IF ~Flag(patient_data, "care_plan_complete") \/ stored_error
        THEN LET response == Generate(c, "care_planning")
                 content == response.text
                 updated == Update(patient_data,
                                   [treatment_recommendations |-> content,
                                    care_level |-> CareLevel(content),
                                    care_plan_complete |-> TRUE])
             IN  [state |-> [patient_data |-> updated, stage |-> "care_planning"],
                  outs |-> Tail(c.outs),
                  log |-> Append(c.log, response),
                  inv |-> Append(c.inv, "care_planning")]
        ELSE [c EXCEPT !.state.stage = "care_planning", !.inv = Append(@, "care_planning")]

care_planner(c) ==
    LET patient_data == c.state.patient_data
    IN  IF ~Flag(patient_data, "care_plan_complete")
        THEN LET response == Generate(c, "care_planning")
                 content == response.text
                 updated == Update(patient_data,
                                   [treatment_recommendations |-> content,
                                    care_level |-> CareLevel(content),
                                    care_plan_complete |-> TRUE])
             IN  [state |-> [patient_data |-> updated, stage |-> "care_planning"],
                  outs |-> Tail(c.outs),
                  log |-> Append(c.log, response),
                  inv |-> Append(c.inv, "care_planning")]
        ELSE [c EXCEPT !.state.stage = "care_planning", !.inv = Append(@, "care_planning")]

\* mutant: route names the next stage without running the processor
route_no_process(c) ==
    LET stage == c.state.stage
    IN  CASE stage = "intake" ->
                [ctx |-> c,
                 ret |-> IF Flag(c.state.patient_data, "intake_complete")
                         THEN "assessment" ELSE stage]
          [] stage = "assessment" ->
                [ctx |-> c,
                 ret |-> IF Flag(c.state.patient_data, "assessment_complete")
                         THEN "care_planning" ELSE stage]
          [] OTHER -> [ctx |-> c, ret |-> stage]

\* mutant: the care_planning branch returns to intake once the plan is complete
route_cycle(c) ==
    LET stage == c.state.stage
    IN  CASE stage = "intake" ->
                LET r == intake_coordinator(c)
                IN  [ctx |-> r,
                     ret |-> IF Flag(r.state.patient_data, "intake_complete")
                             THEN "assessment" ELSE stage]
          [] stage = "assessment" ->
                LET r == clinical_assessment(c)
                IN  [ctx |-> r,
                     ret |-> IF Flag(r.state.patient_data, "assessment_complete")
                             THEN "care_planning" ELSE stage]
          [] stage = "care_planning" ->
                LET r == care_planner(c)
                IN  [ctx |-> r,
                     ret |-> IF Flag(r.state.patient_data, "care_plan_complete")
                             THEN "intake" ELSE stage]
          [] OTHER -> [ctx |-> c, ret |-> stage]

\* mutant: the intake branch reads the flag of the assessment stage
route_wrong_flag(c) ==
    LET stage == c.state.stage
    IN  CASE stage = "intake" ->
                LET r == intake_coordinator(c)
                IN  [ctx |-> r,
                     ret |-> IF Flag(r.state.patient_data, "assessment_complete")
                             THEN "assessment" ELSE stage]
          [] stage = "assessment" ->
                LET r == clinical_assessment(c)
                IN  [ctx |-> r,
                     ret |-> IF Flag(r.state.patient_data, "assessment_complete")
                             THEN "care_planning" ELSE stage]
          [] stage = "care_planning" ->
                [ctx |-> care_planner(c), ret |-> stage]
          [] OTHER -> [ctx |-> c, ret |-> stage]

\* route: runs the processor of the stage and names the next stage.  The
\* result is the call context with the returned stage name in ret.
route(c) ==
    LET stage == c.state.stage
    IN  CASE stage = "intake" ->
                LET r == intake_coordinator(c)
                IN  [ctx |-> r,
                     ret |-> IF Flag(r.state.patient_data, "intake_complete")
                             THEN "assessment" ELSE stage]
          [] stage = "assessment" ->
                LET r == clinical_assessment(c)
                IN  [ctx |-> r,
                     ret |-> IF Flag(r.state.patient_data, "assessment_complete")
                             THEN "care_planning" ELSE stage]
          [] stage = "care_planning" ->
                [ctx |-> care_planner(c), ret |-> stage]
          [] OTHER -> [ctx |-> c, ret |-> stage]

\* mutant: every edge is guarded by the flag of its target stage
conditions_target_flag ==
    <<"intake", "assessment">> :> "assessment_complete"
        @@ <<"assessment", "care_planning">> :> "care_plan_complete"
        @@ <<"care_planning", "intake">> :> "intake_complete"

\* the conditions dictionary of create_agent_workflow: edge -> flag it reads
conditions ==
    <<"intake", "assessment">> :> "intake_complete"
        @@ <<"assessment", "care_planning">> :> "assessment_complete"
        @@ <<"care_planning", "intake">> :> "care_plan_complete"

\* mutant: an edge without a condition is allowed
evaluate_condition_default_true(current_state, from_node, to_node) ==
    IF <<from_node, to_node>> \in DOMAIN conditions
    THEN Flag(current_state.patient_data, conditions[<<from_node, to_node>>])
    ELSE TRUE

evaluate_condition(current_state, from_node, to_node) ==
    IF <<from_node, to_node>> \in DOMAIN conditions
    THEN Flag(current_state.patient_data, conditions[<<from_node, to_node>>])
    ELSE FALSE

\* mutant: the processor is left to route alone
transition_dedup(c) ==
    LET from_stage == c.state.stage
        routed == route(c)
        next_stage == routed.ret
    IN  IF next_stage # from_stage
        THEN IF evaluate_condition(routed.ctx.state, from_stage, next_stage)
             THEN [ctx |-> [routed.ctx EXCEPT !.state.stage = next_stage],
                   error |-> "none"]
             ELSE [ctx |-> routed.ctx, error |-> "ValueError"]
        ELSE [ctx |-> routed.ctx, error |-> "none"]

\* mutant: the stage is advanced before route is asked, and route's answer
\* is committed without consulting the transition table
transition_chained(c) ==
    LET from_stage == c.state.stage
        processed == CASE from_stage = "intake" -> intake_coordinator(c)
                       [] from_stage = "assessment" -> clinical_assessment(c)
                       [] from_stage = "care_planning" -> care_planner(c)
                       [] OTHER -> c
        first == route(processed)
        routed == route([first.ctx EXCEPT !.state.stage = first.ret])
    IN  [ctx |-> [routed.ctx EXCEPT !.state.stage = routed.ret], error |-> "none"]

\* mutant: when route names the current stage, an edge of the table that
\* leaves it is taken if its guard holds
transition_follows_table(c) ==
    LET from_stage == c.state.stage
        processed == CASE from_stage = "intake" -> intake_coordinator(c)
                       [] from_stage = "assessment" -> clinical_assessment(c)
                       [] from_stage = "care_planning" -> care_planner(c)
                       [] OTHER -> c
        routed == route(processed)
        next_stage == routed.ret
    IN  IF next_stage # from_stage
        THEN IF evaluate_condition(routed.ctx.state, from_stage, next_stage)
             THEN [ctx |-> [routed.ctx EXCEPT !.state.stage = next_stage],
                   error |-> "none"]
             ELSE [ctx |-> routed.ctx, error |-> "ValueError"]
        ELSE IF /\ from_stage = "care_planning"
                /\ evaluate_condition(routed.ctx.state, "care_planning", "intake")
             THEN [ctx |-> [routed.ctx EXCEPT !.state.stage = "intake"], error |-> "none"]
             ELSE [ctx |-> routed.ctx, error |-> "none"]

\* transition: the state dict is mutated in place, so the caller's dict
\* carries the processors' writes also when ValueError is raised.
transition(c) ==
    LET from_stage == c.state.stage
        processed == CASE from_stage = "intake" -> intake_coordinator(c)
                       [] from_stage = "assessment" -> clinical_assessment(c)
                       [] from_stage = "care_planning" -> care_planner(c)
                       [] OTHER -> c
        routed == route(processed)
        next_stage == routed.ret
    IN  IF next_stage # from_stage
        THEN IF evaluate_condition(routed.ctx.state, from_stage, next_stage)
             THEN [ctx |-> [routed.ctx EXCEPT !.state.stage = next_stage],
                   error |-> "none"]
             ELSE [ctx |-> routed.ctx, error |-> "ValueError"]
        ELSE [ctx |-> routed.ctx, error |-> "none"]

----------------------------------------------------------------------------
(* The workflow as the caller drives it *)

Names == 1..MaxNames

\* the record a caller builds from the intake form (main.py:354-375)
FreshRecord(name) == "name" :> name

NoCall ==
    [op |-> "none", from |-> "intake", log |-> <<>>, inv |-> <<>>, ret |-> "none", error |-> "none"]

\* stages whose generation call in log failed / succeeded
FailedIn(log) == {log[i].by : i \in {j \in 1..Len(log) : log[j].kind # "text"}}
SucceededIn(log) == {log[i].by : i \in {j \in 1..Len(log) : log[j].kind = "text"}}

\* The outcomes of the generation client for the requests of one call: the
\* second outcome is only drawn when the call makes a second request.
Draws(Left(_)) ==
    {outs \in Outcomes \X Outcomes : outs[2] = outs[1] \/ Left(<<outs[1], outs[1]>>) = 0}

\* GroqLLM.__init__: the default model (groq_llm.py:23)
NewClient == [model |-> "deepseek-r1-distill-qwen-32b"]

SessionIds == {"a", "b"}

\* a session before its intake form is submitted (main.py:16-20)
NewSession(s) ==
    LET st == [patient_data |-> FreshRecord(s), stage |-> "intake"]
    IN  [state |-> st, pc |-> "idle", entry |-> st]

\* no transition call made yet by the looping caller
NewRun == [steps |-> 0, calls |-> 0]

\* an empty dict
EmptyDict == [k \in {} |-> TRUE]

\* d[k] = v on a dict
SetItem(d, k, v) == (k :> v) @@ d

\* initialize_session_state: the keys a script run finds missing get their
\* default
initialize_session_state(session) ==
    session @@ [patient_data |-> EmptyDict,
                current_stage |-> "intake",
                assessment_complete |-> FALSE,
                hospitals_found |-> <<>>]

\* the script run made no transition call
NoStep == [page |-> "none", given |-> EmptyDict, result |-> "none", calls |-> 0]

\* a session after its first script run
NewUI ==
    [session |-> initialize_session_state(EmptyDict),
     rerun |-> FALSE,
     event |-> "none",
     step |-> NoStep]

Init ==
    /\ \E name \in Names : state = [patient_data |-> FreshRecord(name), stage |-> "intake"]
    /\ last = NoCall
    /\ failed = {}
    /\ sessions = [s \in SessionIds |-> NewSession(s)]
    /\ llm = NewClient
    /\ run = NewRun
    /\ ui = NewUI

\* the caller builds a new state dict around a fresh record
NewState ==
    /\ \E name \in Names : state' = [patient_data |-> FreshRecord(name), stage |-> "intake"]
    /\ last' = [NoCall EXCEPT !.op = "new"]
    /\ failed' = {}
    /\ UNCHANGED <<sessions, llm, run, ui>>

\* the caller builds a state dict around the record it holds, naming the
\* stage itself (main.py:372-375, 421-431, 451-454)
SetStage ==
    \E s \in Stages :
        /\ state' = [state EXCEPT !.stage = s]
        /\ last' = [NoCall EXCEPT !.op = "set_stage", !.from = state.stage]
        /\ UNCHANGED <<failed, sessions, llm, run, ui>>

Processor(p, c) ==
    CASE p = "intake_coordinator" -> intake_coordinator(c)
      [] p = "clinical_assessment" -> clinical_assessment(c)
      [] p = "care_planner" -> care_planner(c)

Processors == {"intake_coordinator", "clinical_assessment", "care_planner"}

CallProcessor ==
    \E p \in Processors :
        \E outs \in Draws(LAMBDA o : Len(Processor(p, Ctx(state, o)).outs)) :
            LET r == Processor(p, Ctx(state, outs))
            IN  /\ state' = r.state
                /\ last' = [op |-> p, from |-> state.stage, log |-> r.log, inv |-> r.inv,
                            ret |-> "none", error |-> "none"]
                /\ failed' = (failed \ SucceededIn(r.log)) \cup FailedIn(r.log)
                /\ UNCHANGED <<sessions, llm, run, ui>>

CallRoute ==
    \E outs \in Draws(LAMBDA o : Len(route(Ctx(state, o)).ctx.outs)) :
        LET r == route(Ctx(state, outs))
        IN  /\ state' = r.ctx.state
            /\ last' = [op |-> "route", from |-> state.stage, log |-> r.ctx.log,
                        inv |-> r.ctx.inv, ret |-> r.ret, error |-> "none"]
            /\ failed' = (failed \ SucceededIn(r.ctx.log)) \cup FailedIn(r.ctx.log)
            /\ UNCHANGED <<sessions, llm, run, ui>>

Step ==
    \E outs \in Draws(LAMBDA o : Len(transition(Ctx(state, o)).ctx.outs)) :
        LET r == transition(Ctx(state, outs))
        IN  /\ state' = r.ctx.state
            /\ last' = [op |-> "transition", from |-> state.stage, log |-> r.ctx.log,
                        inv |-> r.ctx.inv, ret |-> "none", error |-> r.error]
            /\ failed' = (failed \ SucceededIn(r.ctx.log)) \cup FailedIn(r.ctx.log)
            /\ UNCHANGED <<sessions, llm, run, ui>>

Next == NewState \/ SetStage \/ CallProcessor \/ CallRoute \/ Step

Spec == Init /\ [][Next]_vars

----------------------------------------------------------------------------
(* The processors on arbitrary model replies *)

\* the tokens a model reply is made of: plain words, the two keywords in
\* some letter case, the think tags, a line break, and the start and the
\* end of a metadata block
TextTok == {"x", "Emergency", "URGENT", "<think>", "</think>", "\n", "{\"", "}"}

Texts == UNION {[1..n -> TextTok] : n \in 0..MaxTextLen}

\* a processor is run on a fresh record and the client answers with content
ProcessReply ==
    /\ DOMAIN state.patient_data = {"name"}
    /\ \E p \in Processors, content \in Texts :
          LET r == Processor(p, Ctx(state, <<[kind |-> "text", content |-> content]>>))
          IN  /\ state' = r.state
              /\ last' = [op |-> p, from |-> state.stage, log |-> r.log, inv |-> r.inv,
                          ret |-> "none", error |-> "none"]
              /\ failed' = (failed \ SucceededIn(r.log)) \cup FailedIn(r.log)
              /\ UNCHANGED <<sessions, llm, run, ui>>

NextText == NewState \/ ProcessReply

SpecText == Init /\ [][NextText]_vars

----------------------------------------------------------------------------
(* Two UI sessions in one process, each with its own workflow state *)

\* the replies the client gives in SpecSessions: a text or a failure
SessionOutcomes ==
    {[kind |-> "text", content |-> <<"x">>], [kind |-> "raise", content |-> <<"x">>]}

\* mutant: the processors write into one module-level state dict
StoreState_shared(all, s, st) ==
    [t \in DOMAIN all |-> [all[t] EXCEPT !.state = st, !.entry = st]]

\* the writes of a call go to the state dict it was given (agents.py:88-91,
\* 307): the dict of session s
StoreState(all, s, st) == [all EXCEPT ![s].state = st, ![s].entry = st]

\* generate_response reads self.client and self.model and assigns neither
UseClient(client) == client

\* session s calls transition on its state dict; the call blocks in the
\* generation client while the other session runs
BeginStep(s) ==
    /\ sessions[s].pc = "idle"
    /\ sessions' = [sessions EXCEPT ![s].pc = "in_transition", ![s].entry = sessions[s].state]
    /\ UNCHANGED <<state, last, failed, llm, run, ui>>

\* the call of session s gets its replies and returns
EndStep(s) ==
    /\ sessions[s].pc = "in_transition"
    /\ \E outs \in SessionOutcomes \X SessionOutcomes :
          LET r == transition(Ctx(sessions[s].state, outs))
          IN  sessions' = [StoreState(sessions, s, r.ctx.state) EXCEPT ![s].pc = "idle"]
    /\ llm' = UseClient(llm)
    /\ UNCHANGED <<state, last, failed, run, ui>>

\* session s builds its next state dict around its record (main.py:451-454)
SessionSetStage(s) ==
    /\ sessions[s].pc = "idle"
    /\ \E stage \in Stages :
          sessions' = StoreState(sessions, s, [sessions[s].state EXCEPT !.stage = stage])
    /\ UNCHANGED <<state, last, failed, llm, run, ui>>

\* session s starts over with a fresh record (main.py:572-575, 353-375)
SessionReset(s) ==
    /\ sessions[s].pc = "idle"
    /\ sessions' = [sessions EXCEPT ![s] = NewSession(s)]
    /\ UNCHANGED <<state, last, failed, llm, run, ui>>

NextSessions ==
    \E s \in SessionIds : BeginStep(s) \/ EndStep(s) \/ SessionSetStage(s) \/ SessionReset(s)

SpecSessions == Init /\ [][NextSessions]_vars

----------------------------------------------------------------------------
(* A caller that loops transition on the state it returns *)

\* number of transition calls the looping caller makes
MaxSteps == 4

\* result = transition(workflow, state, conditions); state = result
RunStep ==
    /\ run.steps < MaxSteps
    /\ last.error = "none"
    /\ \E outs \in Draws(LAMBDA o : Len(transition(Ctx(state, o)).ctx.outs)) :
          LET r == transition(Ctx(state, outs))
          IN  /\ state' = r.ctx.state
              /\ last' = [op |-> "transition", from |-> state.stage, log |-> r.ctx.log,
                          inv |-> r.ctx.inv, ret |-> "none", error |-> r.error]
              /\ failed' = (failed \ SucceededIn(r.ctx.log)) \cup FailedIn(r.ctx.log)
              /\ run' = [steps |-> run.steps + 1, calls |-> run.calls + Len(r.ctx.log)]
    /\ UNCHANGED <<sessions, llm, ui>>

NextRun == RunStep

SpecRun == Init /\ [][NextRun]_vars

----------------------------------------------------------------------------
(* One Streamlit session (src/main.py, src/hospital_finder.py).  Every     *)
(* action is one script run of main(): the run a button press triggers, or *)
(* the run st.rerun() triggers.                                            *)

\* what a script run of the UI leaves behind: the session state, whether it
\* ended in st.rerun(), the button it handled and the transition it made
UIRun(session, rerun, event, step) ==
    /\ ui' = [session |-> session, rerun |-> rerun, event |-> event, step |-> step]
    /\ UNCHANGED <<state, last, failed, sessions, llm, run>>

\* the transition call of a page on the state dict it built, and the
\* session record after st.session_state.patient_data.update(result[...])
PageResult(page, patient_data, r) ==
    [error |-> r.error,
     record |-> r.ctx.state.patient_data,
     step |-> [page |-> page,
               given |-> patient_data,
               result |-> IF r.error = "none" THEN r.ctx.state.stage ELSE "none",
               calls |-> Len(r.ctx.log)]]

PageStep(page, patient_data, outs) ==
    PageResult(page, patient_data,
               transition(Ctx([patient_data |-> patient_data, stage |-> page], outs)))

\* intake_form, submitted with its required fields: a transition on a new
\* record; its result is merged into the session record (main.py:353-383)
SubmitIntake ==
    /\ ~ui.rerun
    /\ ui.session.current_stage = "intake"
    /\ \E name \in Names, outs \in SessionOutcomes \X SessionOutcomes :
          \E p \in {PageStep("intake", FreshRecord(name), outs)} :
              IF p.error = "none"
              THEN UIRun(SetItem(SetItem(ui.session, "patient_data",
                                         Update(ui.session.patient_data, p.record)),
                                 "current_stage", "assessment"),
                         TRUE, "submit_intake", p.step)
              ELSE UIRun(ui.session, FALSE, "submit_intake", p.step)

\* clinical_assessment page, submitted: a transition on a copy of the
\* session record with the form's fields added (main.py:419-439)
SubmitAssessment ==
    /\ ~ui.rerun
    /\ ui.session.current_stage = "assessment"
    /\ \E outs \in SessionOutcomes \X SessionOutcomes :
          \E p \in {PageStep("assessment",
                               Update(ui.session.patient_data, [pain_level |-> 1]), outs)} :
              IF p.error = "none"
              THEN UIRun(SetItem(SetItem(ui.session, "patient_data",
                                         Update(ui.session.patient_data, p.record)),
                                 "current_stage", "care_planning"),
                         TRUE, "submit_assessment", p.step)
              ELSE UIRun(ui.session, FALSE, "submit_assessment", p.step)

\* the script run after st.rerun(): the defaults are restored and the page
\* of current_stage is rendered; the care planning page runs its transition
\* on the session record itself when the record has no care_plan_complete
\* key (main.py:272, 292-298, 448-466)
Rerun ==
    /\ ui.rerun
    /\ \E session \in {initialize_session_state(ui.session)} :
           IF /\ session.current_stage = "care_planning"
              /\ "care_plan_complete" \notin DOMAIN session.patient_data
           THEN \E outs \in SessionOutcomes \X SessionOutcomes :
                   \E p \in {PageStep("care_planning", session.patient_data, outs)} :
                       UIRun(SetItem(session, "patient_data", p.record),
                             FALSE, ui.event, p.step)
           ELSE UIRun(session, FALSE, ui.event, NoStep)

\* the sidebar's Find Healthcare Providers button, on any page
\* (main.py:283-284)
SidebarFind ==
    /\ ~ui.rerun
    /\ UIRun(SetItem(ui.session, "current_stage", "hospital_finder"),
             FALSE, "sidebar_find", NoStep)

\* the care planning page's Find Healthcare Providers button
\* (main.py:567-570)
CarePlanFind ==
    /\ ~ui.rerun
    /\ ui.session.current_stage = "care_planning"
    /\ UIRun(SetItem(SetItem(ui.session, "previous_stage", "care_planning"),
                     "current_stage", "hospital_finder"),
             TRUE, "care_plan_find", NoStep)

\* the hospital finder's Back button (hospital_finder.py:71-77)
Back ==
    /\ ~ui.rerun
    /\ ui.session.current_stage = "hospital_finder"
    /\ UIRun(SetItem(ui.session, "current_stage",
                     IF "previous_stage" \in DOMAIN ui.session
                     THEN ui.session.previous_stage
                     ELSE "care_planning"),
             TRUE, "back", NoStep)

\* the hospital finder's Home button (hospital_finder.py:79-83)
Home ==
    /\ ~ui.rerun
    /\ ui.session.current_stage = "hospital_finder"
    /\ UIRun(SetItem(ui.session, "current_stage", "intake"), TRUE, "home", NoStep)

\* mutant: only the navigation keys are dropped
clear_keep_record(session) ==
    [k \in DOMAIN session \ {"current_stage", "previous_stage"} |-> session[k]]

\* st.session_state.clear()
clear(session) == EmptyDict

\* the care planning page's Start New Assessment button (main.py:572-575)
StartNew ==
    /\ ~ui.rerun
    /\ ui.session.current_stage = "care_planning"
    /\ UIRun(clear(ui.session), TRUE, "start_new", NoStep)

NextUI ==
    \/ SubmitIntake \/ SubmitAssessment \/ Rerun
    \/ SidebarFind \/ CarePlanFind \/ Back \/ Home \/ StartNew

SpecUI == Init /\ [][NextUI]_vars

----------------------------------------------------------------------------
(* Properties *)


\* the completion flag, the result field and all keys a stage's processor owns
FlagOf(stage) ==
    CASE stage = "intake" -> "intake_complete"
      [] stage = "assessment" -> "assessment_complete"
      [] stage = "care_planning" -> "care_plan_complete"

ResultOf(stage) ==
    CASE stage = "intake" -> "risk_assessment"
      [] stage = "assessment" -> "clinical_assessment"
      [] stage = "care_planning" -> "treatment_recommendations"

KeysOf(stage) ==
    {FlagOf(stage), ResultOf(stage)} \cup (IF stage = "care_planning" THEN {"care_level"} ELSE {})

ProcessorOf(stage) ==
    CASE stage = "intake" -> "intake_coordinator"
      [] stage = "assessment" -> "clinical_assessment"
      [] stage = "care_planning" -> "care_planner"

CoreOps == Processors \cup {"route", "transition"}

\* the text stored under key, <<>> when the key is absent
Stored(patient_data, key) == IF key \in DOMAIN patient_data THEN patient_data[key] ELSE <<>>

IsErrorText(text) == text # <<>> /\ text[1] = "Error:"

\* C1: transition changes stage only along an edge of the transition table
\* whose guard is true on the record as the processors left it; otherwise
\* stage keeps its value on entry or transition raises.
C1_TransitionLegality ==
    [][last'.op = "transition" =>
          \/ last'.error # "none"
          \/ state'.stage = state.stage
          \/ /\ <<state.stage, state'.stage>> \in DOMAIN conditions
             /\ Flag(state'.patient_data, conditions[<<state.stage, state'.stage>>])]_vars

C1_Witness ==
    /\ last.op = "transition"
    /\ last.from = "assessment"
    /\ state.stage = "care_planning"
    /\ last.error = "none"

\* C2: a processor invoked on a record whose completion flag is already true
\* returns the record unchanged and makes no generation call.
C2_ProcessorIdempotent ==
    [][\A s \in Stages :
          (last'.op = ProcessorOf(s) /\ Flag(state.patient_data, FlagOf(s))) =>
              /\ state'.patient_data = state.patient_data
              /\ last'.log = <<>>]_vars

C2_Witness ==
    /\ last.op = "care_planner"
    /\ last.log = <<>>
    /\ Flag(state.patient_data, "care_plan_complete")
    /\ "care_planning" \notin failed

\* C3: a completion flag is in the record exactly when its result field is
\* (for care planning: treatment_recommendations and care_level, care_level
\* one of Routine, Urgent, Emergency), and a processor that ran the
\* generation step leaves both present.
C3_Atomicity ==
    LET pd == state.patient_data
    IN  /\ \A s \in Stages : \A k \in KeysOf(s) : k \in DOMAIN pd <=> FlagOf(s) \in DOMAIN pd
        /\ "care_level" \in DOMAIN pd => pd["care_level"] \in {"Routine", "Urgent", "Emergency"}
        /\ \A i \in 1..Len(last.log) : KeysOf(last.log[i].by) \subseteq DOMAIN pd

C3_Witness ==
    /\ last.op = "care_planner"
    /\ Len(last.log) = 1
    /\ {"care_plan_complete", "treatment_recommendations", "care_level"} \subseteq DOMAIN state.patient_data
    /\ "intake_complete" \notin DOMAIN state.patient_data

\* C4 as stated: a true completion flag implies that its result field is
\* present and non-empty.
C4_FlagImpliesNonEmptyResult ==
    \A s \in Stages :
        Flag(state.patient_data, FlagOf(s)) =>
            /\ ResultOf(s) \in DOMAIN state.patient_data
            /\ state.patient_data[ResultOf(s)] # <<>>

\* C4 amended: a true completion flag implies that its result field is
\* present; the field holds the empty text when the client returned one.
C4_FlagImpliesResultPresent ==
    /\ \A s \in Stages :
          Flag(state.patient_data, FlagOf(s)) => ResultOf(s) \in DOMAIN state.patient_data
    /\ \A i \in 1..Len(last.log) :
          last.log[i].text = <<>> =>
              /\ Flag(state.patient_data, FlagOf(last.log[i].by))
              /\ ResultOf(last.log[i].by) \in DOMAIN state.patient_data
              /\ state.patient_data[ResultOf(last.log[i].by)] = <<>>

C4_Witness ==
    /\ last.op = "transition"
    /\ last.from = "assessment"
    /\ Len(last.log) = 1
    /\ last.log[1].text = <<>>
    /\ Flag(state.patient_data, "assessment_complete")
    /\ Stored(state.patient_data, "clinical_assessment") = <<>>

\* C5: a completion flag that is true stays true through every call of a
\* processor, of route and of transition on the record.
C5_FlagsMonotonic ==
    [][last'.op \in CoreOps =>
          \A s \in Stages :
              Flag(state.patient_data, FlagOf(s)) => Flag(state'.patient_data, FlagOf(s))]_vars

C5_Witness ==
    /\ last.op = "intake_coordinator"
    /\ Len(last.log) = 1
    /\ Flag(state.patient_data, "assessment_complete")
    /\ Flag(state.patient_data, "care_plan_complete")

\* C6: transition from stage intake on a record without intake_complete, the
\* client returning text T: intake_complete is true, risk_assessment is T
\* and stage is assessment.
C6_IntakeStepSuccess ==
    ( /\ last.op = "transition"
      /\ last.from = "intake"
      /\ last.log # <<>>
      /\ last.log[1].kind = "text" )
    => /\ Flag(state.patient_data, "intake_complete")
       /\ "risk_assessment" \in DOMAIN state.patient_data
       /\ state.patient_data["risk_assessment"] = last.log[1].text
       /\ state.stage = "assessment"
       /\ last.error = "none"

C6_Witness ==
    /\ last.op = "transition"
    /\ last.from = "intake"
    /\ Len(last.log) = 1
    /\ last.log[1].kind = "text"
    /\ last.log[1].text = <<"Emergency">>
    /\ state.stage = "assessment"

\* the generation call of a transition entered at stage intake failed
IntakeStepFailed ==
    /\ last.op = "transition"
    /\ last.from = "intake"
    /\ last.log # <<>>
    /\ last.log[1].kind # "text"

\* C7 as stated: when the generation call of a transition from intake fails,
\* transition reports a generation error, intake_complete is not set and
\* stage stays intake.
C7_FailureIsReported ==
    IntakeStepFailed =>
        /\ last.error = "GenerationError"
        /\ ~Flag(state.patient_data, "intake_complete")
        /\ state.stage = "intake"

\* C7 amended: when the generation call of a transition from intake fails,
\* transition reports no error, risk_assessment holds the text
\* "Error: <message>", intake_complete is true and stage is assessment.
C7_FailureIsStored ==
    IntakeStepFailed =>
        /\ last.error = "none"
        /\ Flag(state.patient_data, "intake_complete")
        /\ IsErrorText(Stored(state.patient_data, "risk_assessment"))
        /\ Stored(state.patient_data, "risk_assessment") = last.log[1].text
        /\ state.stage = "assessment"

C7_Witness ==
    /\ IntakeStepFailed
    /\ last.log[1].kind = "raise"
    /\ state.stage = "assessment"
    /\ failed = {"intake"}

\* C8 as stated: transition entered at a stage whose latest generation call
\* failed calls the generation client again for that stage.
C8_FailedStageRetried ==
    [][(last'.op = "transition" /\ state.stage \in failed) =>
          /\ last'.log # <<>>
          /\ last'.log[1].by = state.stage]_vars

\* C8 amended: transition entered at a stage whose latest generation call
\* failed makes no generation call and leaves the record, with the stored
\* error text, as it is.
C8_FailedStageNotRetried ==
    [][(last'.op = "transition" /\ state.stage \in failed) =>
          /\ last'.log = <<>>
          /\ state'.patient_data = state.patient_data
          /\ IsErrorText(Stored(state'.patient_data, ResultOf(state.stage)))]_vars

C8_Witness ==
    /\ last.op = "transition"
    /\ last.from = "care_planning"
    /\ "care_planning" \in failed
    /\ last.log = <<>>
    /\ IsErrorText(Stored(state.patient_data, "treatment_recommendations"))

\* C9: a failed generation call leaves the error text in the stage's result
\* field and the completion flag true, and transition ends in the same
\* stage and with the same error status as for any other outcome.
C9_FailureMarksComplete ==
    [][/\ \A i \in 1..Len(last'.log) :
             last'.log[i].kind # "text" =>
                 /\ IsErrorText(last'.log[i].text)
                 /\ Stored(state'.patient_data, ResultOf(last'.log[i].by)) = last'.log[i].text
                 /\ Flag(state'.patient_data, FlagOf(last'.log[i].by))
       /\ last'.op = "transition" =>
             \A o \in Outcomes :
                 LET r == transition(Ctx(state, <<o, o>>))
                 IN  /\ r.ctx.state.stage = state'.stage
                     /\ r.error = last'.error]_vars

C9_Witness ==
    /\ last.op = "transition"
    /\ last.from = "assessment"
    /\ Len(last.log) = 1
    /\ last.log[1].kind = "null"
    /\ state.stage = "care_planning"
    /\ Stored(state.patient_data, "clinical_assessment") = <<"Error:", " ", "x">>

\* C10: a transition whose generation call failed leaves the flags and
\* result fields already written by the other stages as they were.
C10_FailureIsLocal ==
    [][last'.op = "transition" =>
          \A s \in FailedIn(last'.log) :
              \A t \in Stages \ {s} :
                  \A k \in KeysOf(t) \cap DOMAIN state.patient_data :
                      /\ k \in DOMAIN state'.patient_data
                      /\ state'.patient_data[k] = state.patient_data[k]]_vars

C10_Witness ==
    /\ last.op = "transition"
    /\ last.from = "care_planning"
    /\ FailedIn(last.log) = {"care_planning"}
    /\ Flag(state.patient_data, "intake_complete")
    /\ Flag(state.patient_data, "assessment_complete")
    /\ ~IsErrorText(Stored(state.patient_data, "clinical_assessment"))

\* C11: transition never raises ValueError, and whenever route returns a
\* stage other than the one it was entered at, that edge is in the
\* transition table and its guard is true on the record.
C11_NoIllegalTransition ==
    /\ last.op = "transition" => last.error = "none"
    /\ (last.op = "route" /\ last.ret # last.from) =>
           /\ <<last.from, last.ret>> \in DOMAIN conditions
           /\ evaluate_condition(state, last.from, last.ret)

C11_Witness ==
    /\ last.op = "route"
    /\ last.from = "assessment"
    /\ last.ret = "care_planning"
    /\ Len(last.log) = 1

\* C12 as stated: one transition call invokes the processor of the current
\* stage exactly once.
C12_ProcessorInvokedOnce ==
    last.op = "transition" => last.inv = <<last.from>>

\* C12 amended: one transition call invokes the processor of the current
\* stage twice, once itself and once inside route, and no other processor;
\* the second invocation makes no generation call.
C12_ProcessorInvokedTwice ==
    last.op = "transition" =>
        /\ last.inv = <<last.from, last.from>>
        /\ Len(last.log) <= 1

C12_Witness ==
    /\ last.op = "transition"
    /\ last.inv = <<"assessment", "assessment">>
    /\ Len(last.log) = 1
    /\ last.log[1].by = "assessment"

\* the stage route names, given the stage it was entered at and the record
\* as its processor left it
RouteAnswer(stage, patient_data) ==
    CASE stage = "intake" /\ Flag(patient_data, "intake_complete") -> "assessment"
      [] stage = "assessment" /\ Flag(patient_data, "assessment_complete") -> "care_planning"
      [] OTHER -> stage

\* C13: route runs the processor of the current stage, once, and then
\* returns assessment from intake with intake_complete, care_planning from
\* assessment with assessment_complete, care_planning from care_planning,
\* and the current stage when its flag is not set.
C13_RouteAnswer ==
    last.op = "route" =>
        /\ last.inv = <<last.from>>
        /\ last.ret = RouteAnswer(last.from, state.patient_data)
        /\ (last.from = "care_planning" => last.ret = "care_planning")

C13_Witness ==
    /\ last.op = "route"
    /\ last.from = "intake"
    /\ last.inv = <<"intake">>
    /\ last.ret = "assessment"
    /\ Len(last.log) = 1

\* C15: transition at stage care_planning on a record with
\* care_plan_complete true changes nothing: same record, same stage, no
\* generation call, no error.
C15_CompletedPlanNoOp ==
    [][(/\ last'.op = "transition"
        /\ state.stage = "care_planning"
        /\ Flag(state.patient_data, "care_plan_complete")) =>
          /\ state' = state
          /\ last'.log = <<>>
          /\ last'.error = "none"]_vars

C15_Witness ==
    /\ last.op = "transition"
    /\ last.from = "care_planning"
    /\ last.log = <<>>
    /\ state.stage = "care_planning"
    /\ Flag(state.patient_data, "care_plan_complete")
    /\ "care_planning" \notin failed

\* C16: after a processor call state.stage is the processor's own stage,
\* whatever it was before; route leaves the stage it was entered at.
C16_ProcessorSetsOwnStage ==
    /\ \A s \in Stages : last.op = ProcessorOf(s) => state.stage = s
    /\ last.op = "route" => state.stage = last.from

C16_Witness ==
    /\ last.op = "clinical_assessment"
    /\ last.from = "care_planning"
    /\ state.stage = "assessment"
    /\ Len(last.log) = 1

\* C17: a processor call leaves every key other than its own result
\* field(s) and flag as it was, and a flag only becomes true in a call that
\* invoked its owning processor.
C17_ProcessorFrame ==
    [][/\ \A s \in Stages :
             last'.op = ProcessorOf(s) =>
                 \A k \in (DOMAIN state.patient_data \cup DOMAIN state'.patient_data) \ KeysOf(s) :
                     /\ k \in DOMAIN state.patient_data
                     /\ k \in DOMAIN state'.patient_data
                     /\ state'.patient_data[k] = state.patient_data[k]
       /\ last'.op \in CoreOps =>
             \A s \in Stages :
                 (~Flag(state.patient_data, FlagOf(s)) /\ Flag(state'.patient_data, FlagOf(s))) =>
                     \E i \in 1..Len(last'.inv) : last'.inv[i] = s]_vars

C17_Witness ==
    /\ last.op = "care_planner"
    /\ Len(last.log) = 1
    /\ "name" \in DOMAIN state.patient_data
    /\ Flag(state.patient_data, "intake_complete")
    /\ "assessment_complete" \notin DOMAIN state.patient_data

\* node names evaluate_condition can be asked about
Nodes == Stages \cup {"hospital_finder"}

\* C18: evaluate_condition is true exactly for the edges intake->assessment,
\* assessment->care_planning and care_planning->intake when the flag of the
\* from-stage is true in the record, and false for every other pair.
C18_EvaluateCondition ==
    \A f \in Nodes, t \in Nodes :
        evaluate_condition(state, f, t) <=>
            \/ f = "intake" /\ t = "assessment" /\ Flag(state.patient_data, "intake_complete")
            \/ f = "assessment" /\ t = "care_planning" /\ Flag(state.patient_data, "assessment_complete")
            \/ f = "care_planning" /\ t = "intake" /\ Flag(state.patient_data, "care_plan_complete")

C18_Witness ==
    /\ last.op = "transition"
    /\ last.from = "intake"
    /\ state.stage = "assessment"
    /\ evaluate_condition(state, "intake", "assessment")
    /\ ~evaluate_condition(state, "assessment", "care_planning")
    /\ ~evaluate_condition(state, "intake", "care_planning")

ThinkTags == {"<think>", "</think>"}

\* C14: the care level stored with a generated care plan is Emergency when
\* the text contains "emergency" in any letter case, otherwise Urgent when
\* it contains "urgent" in any letter case, otherwise Routine.
C14_CareLevelDerivation ==
    (last.op = "care_planner" /\ Len(last.log) = 1) =>
        LET text == Stored(state.patient_data, "treatment_recommendations")
            has_emergency == \E i \in 1..Len(text) : text[i] \in {"Emergency", "EMERGENCY", "emergency"}
            has_urgent == \E i \in 1..Len(text) : text[i] \in {"Urgent", "URGENT", "urgent"}
        IN  /\ "care_level" \in DOMAIN state.patient_data
            /\ has_emergency => state.patient_data["care_level"] = "Emergency"
            /\ (~has_emergency /\ has_urgent) => state.patient_data["care_level"] = "Urgent"
            /\ (~has_emergency /\ ~has_urgent) => state.patient_data["care_level"] = "Routine"

C14_Witness ==
    /\ last.op = "care_planner"
    /\ Len(last.log) = 1
    /\ Stored(state.patient_data, "treatment_recommendations") = <<"URGENT", "x", "Emergency">>
    /\ state.patient_data["care_level"] = "Emergency"

\* C19: the text a processor stores as its result contains no think tag,
\* whatever the model replied.
C19_NoThinkTagStored ==
    \A i \in 1..Len(last.log) :
        last.log[i].kind = "text" =>
            LET text == Stored(state.patient_data, ResultOf(last.log[i].by))
            IN  \A j \in 1..Len(text) : text[j] \notin ThinkTags

LaterKeys == KeysOf("assessment") \cup KeysOf("care_planning")

\* C21: after every intake-form submission the session record carries no
\* flag and no result of the assessment or care planning stage from an
\* earlier pass, so the assessment and care planning steps the UI runs
\* afterwards each make a generation call.
C21_IntakeStartsFresh ==
    /\ (ui.step.page = "intake" /\ ui.step.result # "none") =>
          DOMAIN ui.session.patient_data \cap LaterKeys = {}
    /\ ui.step.page \in {"assessment", "care_planning"} => ui.step.calls = 1

\* C22: after Start New Assessment the session state is discarded, and
\* once the next script run has ended the session record is empty and the
\* current stage is intake.
C22_StartNewDiscards ==
    ui.event = "start_new" =>
        IF ui.rerun
        THEN DOMAIN ui.session = {}
        ELSE /\ DOMAIN ui.session.patient_data = {}
             /\ ui.session.current_stage = "intake"
             /\ "previous_stage" \notin DOMAIN ui.session

C22_Witness ==
    /\ ui.event = "start_new"
    /\ ~ui.rerun
    /\ ui.session.current_stage = "intake"
    /\ DOMAIN ui.session.patient_data = {}

\* C23: one transition call makes exactly one generation call when the
\* completion flag of the current stage was unset on entry and none when
\* it was set, although it invokes the stage's processor a second time
\* inside route.
C23_OneGenerationPerStep ==
    [][last'.op = "transition" =>
          /\ Len(last'.log) = IF Flag(state.patient_data, FlagOf(state.stage)) THEN 0 ELSE 1
          /\ \A i \in 1..Len(last'.log) : last'.log[i].by = state.stage]_vars

C23_Witness ==
    /\ last.op = "transition"
    /\ last.from = "intake"
    /\ last.inv = <<"intake", "intake">>
    /\ Len(last.log) = 1
    /\ last.log[1].kind = "raise"

AllFlags(patient_data) == \A s \in Stages : Flag(patient_data, FlagOf(s))

\* C24: a caller that starts at stage intake with no completion flag and
\* loops transition on the returned state is at stage assessment after the
\* first call, at care_planning after the second, and after the third at
\* care_planning with all three flags true and exactly three generation
\* calls made, whether the generation calls succeed or fail.
C24_ThreeStepsToCompletion ==
    /\ run.steps = 1 => state.stage = "assessment"
    /\ run.steps = 2 => state.stage = "care_planning"
    /\ run.steps = 3 =>
          /\ state.stage = "care_planning"
          /\ AllFlags(state.patient_data)
          /\ run.calls = 3
    /\ run.steps > 0 => last.error = "none"

C24_Witness ==
    /\ run.steps = 3
    /\ run.calls = 3
    /\ state.stage = "care_planning"
    /\ failed = Stages

\* C25: a transition call entered at stage care_planning leaves the stage
\* at care_planning, also when care_plan_complete is true: the
\* care_planning -> intake edge of the table is never taken.
C25_CarePlanningAbsorbing ==
    [][(last'.op = "transition" /\ state.stage = "care_planning") =>
          state'.stage = "care_planning"]_vars

C25_Witness ==
    /\ last.op = "transition"
    /\ last.from = "care_planning"
    /\ state.stage = "care_planning"
    /\ AllFlags(state.patient_data)
    /\ evaluate_condition(state, "care_planning", "intake")

\* C26: in every state a caller reaches by looping transition from stage
\* intake with no completion flag, care_plan_complete implies
\* assessment_complete, assessment_complete implies intake_complete, stage
\* assessment implies intake_complete and stage care_planning implies
\* assessment_complete.
C26_FlagsOrdered ==
    LET pd == state.patient_data
    IN  /\ Flag(pd, "care_plan_complete") => Flag(pd, "assessment_complete")
        /\ Flag(pd, "assessment_complete") => Flag(pd, "intake_complete")
        /\ state.stage = "assessment" => Flag(pd, "intake_complete")
        /\ state.stage = "care_planning" => Flag(pd, "assessment_complete")

C26_Witness ==
    /\ run.steps = 2
    /\ state.stage = "care_planning"
    /\ Flag(state.patient_data, "assessment_complete")
    /\ ~Flag(state.patient_data, "care_plan_complete")
    /\ "assessment" \in failed

\* the stage that follows stage in the workflow
Successor(stage) ==
    CASE stage = "intake" -> "assessment"
      [] stage = "assessment" -> "care_planning"

\* C27: route entered at stage intake returns assessment and route entered
\* at stage assessment returns care_planning, for every record and every
\* outcome of the generation call, because the processor it runs leaves
\* the completion flag true.
C27_RouteAlwaysAdvances ==
    (last.op = "route" /\ last.from \in {"intake", "assessment"}) =>
        /\ last.ret = Successor(last.from)
        /\ last.ret # last.from
        /\ Flag(state.patient_data, FlagOf(last.from))

C27_Witness ==
    /\ last.op = "route"
    /\ last.from = "assessment"
    /\ last.ret = "care_planning"
    /\ Len(last.log) = 1
    /\ last.log[1].kind # "text"
    /\ ~Flag(state.patient_data, "intake_complete")

\* C28: the UI runs the care planning step only on a session record with
\* intake_complete and assessment_complete both true.
C28_CarePlanningOnAssessedRecord ==
    ui.step.page = "care_planning" =>
        /\ Flag(ui.step.given, "intake_complete")
        /\ Flag(ui.step.given, "assessment_complete")

\* C29: after a script run in which a page ran transition, the stage in
\* session current_stage is the stage of the state transition returned.
C29_StoredStageIsReturnedStage ==
    ui.step.result # "none" => ui.session.current_stage = ui.step.result

C29_Witness ==
    /\ ui.event = "submit_assessment"
    /\ ui.step.page = "care_planning"
    /\ ui.step.result = "care_planning"
    /\ ui.session.current_stage = "care_planning"
    /\ Flag(ui.step.given, "assessment_complete")
    /\ ui.step.calls = 1

\* a is b with some elements deleted
RECURSIVE IsSubsequence(_, _)
IsSubsequence(a, b) ==
    IF a = <<>> THEN TRUE
    ELSE IF b = <<>> THEN FALSE
    ELSE IF Head(a) = Head(b) THEN IsSubsequence(Tail(a), Tail(b))
    ELSE IsSubsequence(a, Tail(b))

\* C30: the text _clean_response returns is the model's reply with some of
\* its text deleted: nothing is duplicated or reordered.
C30_CleanOnlyDeletes ==
    \A i \in 1..Len(last.log) :
        last.log[i].kind = "text" => IsSubsequence(last.log[i].text, last.log[i].raw)

====
